---- MODULE Spec2Model ----
(***************************************************************************)
(* Model of src/app.py: the Flask learning-assistant backend.              *)
(*                                                                         *)
(* The program has one piece of long-lived state, the collaborator handle  *)
(* (generator.model, present iff GEMINI_API_KEY is set); everything else   *)
(* is scoped to one request.  The model keeps the request being served,    *)
(* the collaborator calls made while serving it, the handler's locals and  *)
(* the response it produced.                                               *)
(*                                                                         *)
(* JSON values are records of one shape, so that any two can be compared:  *)
(*   t      the JSON type: "str", "num", "bool", "null", "list", "obj"     *)
(*   s      a string's content, a sequence of characters; literal text of  *)
(*          the source that is only ever copied is kept as one chunk       *)
(*   n      a number's value                                               *)
(*   items  a list's elements                                              *)
(*   o      an object's members, a function from keys to values            *)
(***************************************************************************)
EXTENDS Integers, Sequences, FiniteSets, TLC

VARIABLES model, request, calls, locals, response

vars == <<model, request, calls, locals, response>>

----------------------------------------------------------------------------
(* JSON values and the Python operations the handlers apply to them *)

VStr(s) == [t |-> "str", s |-> s, n |-> 0, items |-> <<>>, o |-> <<>>]
VNum(n) == [t |-> "num", s |-> <<>>, n |-> n, items |-> <<>>, o |-> <<>>]
VNull == [t |-> "null", s |-> <<>>, n |-> 0, items |-> <<>>, o |-> <<>>]
VBool(b) == [t |-> "bool", s |-> <<>>, n |-> IF b THEN 1 ELSE 0, items |-> <<>>, o |-> <<>>]
VList(items) == [t |-> "list", s |-> <<>>, n |-> 0, items |-> items, o |-> <<>>]
VObj(o) == [t |-> "obj", s |-> <<>>, n |-> 0, items |-> <<>>, o |-> o]

Lit(chunk) == VStr(<<chunk>>)
StrList(chunks) == VList([i \in DOMAIN chunks |-> Lit(chunks[i])])
EmptyObj == VObj(<<>>)

\* dict.get(key, default) and `key in dict`
Has(d, key) == d.t = "obj" /\ key \in DOMAIN d.o
Get(d, key, default) == IF key \in DOMAIN d.o THEN d.o[key] ELSE default

\* dict[key] = v
Put(o, key, v) == [x \in (DOMAIN o) \cup {key} |-> IF x = key THEN v ELSE o[x]]

\* Python truthiness (`not data`)
Truthy(v) ==
    CASE v.t = "null" -> FALSE
      [] v.t \in {"num", "bool"} -> v.n # 0
      [] v.t = "str" -> v.s # <<>>
      [] v.t = "list" -> v.items # <<>>
      [] v.t = "obj" -> DOMAIN v.o # {}

\* len(v): defined for strings, lists and dicts, TypeError otherwise
HasLen(v) == v.t \in {"str", "list", "obj"}
PyLen(v) ==
    CASE v.t = "str" -> Len(v.s)
      [] v.t = "list" -> Len(v.items)
      [] v.t = "obj" -> Cardinality(DOMAIN v.o)
      [] OTHER -> 0

\* f"{a}..." interpolation of a string value into literal text
Fmt(pre, v, post) ==
    VStr((IF pre = "" THEN <<>> ELSE <<pre>>) \o v.s \o (IF post = "" THEN <<>> ELSE <<post>>))

----------------------------------------------------------------------------
(* The fallback artifacts *)

Step(title, description, duration, resources, key_concepts, practical_tasks) ==
    VObj([k \in {"title", "description", "duration", "resources", "key_concepts", "practical_tasks"} |->
        CASE k = "title" -> title
          [] k = "description" -> description
          [] k = "duration" -> duration
          [] k = "resources" -> resources
          [] k = "key_concepts" -> key_concepts
          [] k = "practical_tasks" -> practical_tasks])

\* LearningPath with the success_metrics entry left out
LearningPath_incomplete(title, description, steps, total_estimated_time, difficulty_progression, success_metrics) ==
    VObj([k \in {"title", "description", "steps", "total_estimated_time", "difficulty_progression"} |->
        CASE k = "title" -> title
          [] k = "description" -> description
          [] k = "steps" -> steps
          [] k = "total_estimated_time" -> total_estimated_time
          [] k = "difficulty_progression" -> difficulty_progression])

LearningPath(title, description, steps, total_estimated_time, difficulty_progression, success_metrics) ==
    VObj([k \in {"title", "description", "steps", "total_estimated_time", "difficulty_progression", "success_metrics"} |->
        CASE k = "title" -> title
          [] k = "description" -> description
          [] k = "steps" -> steps
          [] k = "total_estimated_time" -> total_estimated_time
          [] k = "difficulty_progression" -> difficulty_progression
          [] k = "success_metrics" -> success_metrics])

Question(question, options, correct_answer, explanation) ==
    VObj([k \in {"question", "options", "correct_answer", "explanation"} |->
        CASE k = "question" -> question
          [] k = "options" -> options
          [] k = "correct_answer" -> correct_answer
          [] k = "explanation" -> explanation])

\* the text "40-60 hours", character by character
DefaultTotalTime == VStr(<<"4", "0", "-", "6", "0", " ", "h", "o", "u", "r", "s">>)

FallbackSteps(topic) ==
    <<Step(Lit("Foundation & Setup"),
           Fmt("Get started with ", topic, " fundamentals and environment setup"),
           Lit("2-3 days"),
           StrList(<<"Official documentation", "Setup guides", "Beginner tutorials">>),
           StrList(<<"Basic terminology", "Environment setup", "First steps">>),
           StrList(<<"Install tools", "Run hello world", "Basic exercises">>)),
      Step(Lit("Core Concepts"),
           Fmt("Master the fundamental concepts and principles of ", topic, ""),
           Lit("1 week"),
           StrList(<<"Interactive tutorials", "Documentation", "Practice exercises">>),
           StrList(<<"Core principles", "Best practices", "Common patterns">>),
           StrList(<<"Build simple projects", "Complete exercises", "Code reviews">>)),
      Step(Lit("Practical Application"),
           Fmt("Apply ", topic, " knowledge through real-world projects"),
           Lit("1-2 weeks"),
           StrList(<<"Project ideas", "GitHub repos", "Community forums">>),
           StrList(<<"Project structure", "Real-world patterns", "Problem solving">>),
           StrList(<<"Build portfolio project", "Deploy application", "Get feedback">>)),
      Step(Lit("Advanced Topics"),
           Fmt("Explore advanced ", topic, " features and best practices"),
           Lit("1 week"),
           StrList(<<"Advanced tutorials", "Expert blogs", "Documentation">>),
           StrList(<<"Advanced patterns", "Performance", "Scalability">>),
           StrList(<<"Optimize projects", "Learn advanced features", "Mentor others">>))>>

_create_fallback_path(topic, level, timeframe) ==
    LearningPath(Fmt("", topic, " Learning Path"),
                 VStr(<<"A structured ">> \o level.s \o <<"-level approach to learning ">> \o topic.s),
                 VList(FallbackSteps(topic)),
                 DefaultTotalTime,
                 Fmt("", level, " to intermediate"),
                 StrList(<<"Completed projects", "Understanding of concepts", "Ability to solve problems">>))

_create_fallback_quiz(topic, level) ==
    VList(<<
      Question(Fmt("What is the most important first step when learning ", topic, "?"),
               StrList(<<"Jump into advanced topics immediately",
                         "Understand fundamentals and set up environment properly",
                         "Memorize syntax without practice",
                         "Skip documentation completely">>),
               VNum(1),
               Lit("Starting with fundamentals and proper setup creates a strong foundation")),
      Question(Fmt("Which is the best approach for mastering ", topic, "?"),
               StrList(<<"Only read theory without practicing",
                         "Only watch videos without coding",
                         "Combine theory with hands-on practice and projects",
                         "Copy code without understanding the logic">>),
               VNum(2),
               Lit("Combining theory with practice reinforces learning and builds practical skills")),
      Question(Fmt("How can you effectively track your ", topic, " learning progress?"),
               StrList(<<"Only count study hours",
                         "Build increasingly complex projects and measure understanding",
                         "Just read about concepts without applying them",
                         "Memorize definitions without practical use">>),
               VNum(1),
               Lit("Building projects provides concrete evidence of skill development and understanding"))>>)

----------------------------------------------------------------------------
(* The collaborator's response text, as a sequence of lexical tokens:      *)
(*   "{" "}" "[" "]" ","   the JSON punctuation                            *)
(*   "ws"                  white space                                     *)
(*   "word"                prose that is not JSON                          *)
(*   "key"                 a quoted key and its colon                      *)
(*   "val"                 a scalar or a list of scalars (no braces in it) *)
(*   "member"              a key, its colon and such a value               *)

Tok(k) == [k |-> k, key |-> "", val |-> VNull]
Key(key) == [k |-> "key", key |-> key, val |-> VNull]
Val(v) == [k |-> "val", key |-> "", val |-> v]
Member(key, v) == [k |-> "member", key |-> key, val |-> v]

LB == Tok("{")
RB == Tok("}")
LK == Tok("[")
RK == Tok("]")
Comma == Tok(",")
WS == Tok("ws")
Word == Tok("word")

\* str.strip(): drop leading and trailing white space
RECURSIVE lstrip(_)
lstrip(text) == IF text # <<>> /\ Head(text) = WS THEN lstrip(Tail(text)) ELSE text

RECURSIVE rstrip(_)
rstrip(text) ==
    IF text # <<>> /\ text[Len(text)] = WS THEN rstrip(SubSeq(text, 1, Len(text) - 1)) ELSE text

strip(text) == rstrip(lstrip(text))

\* re_search with the lazy pattern \{.*?\}: the match ends at the first "}"
re_search_lazy(text) ==
    LET starts == {i \in DOMAIN text : text[i] = LB /\ \E j \in DOMAIN text : j > i /\ text[j] = RB}
    IN  IF starts = {}
        THEN [found |-> FALSE, group |-> <<>>]
        ELSE LET i == CHOOSE a \in starts : \A b \in starts : a <= b
                 j == CHOOSE a \in DOMAIN text :
                          /\ a > i /\ text[a] = RB
                          /\ \A b \in DOMAIN text : (b > i /\ text[b] = RB) => a <= b
             IN  [found |-> TRUE, group |-> SubSeq(text, i, j)]

\* re.search(r'\{.*\}', text, re.DOTALL): the leftmost position at which the
\* pattern matches, and from there the longest match
re_search(text) ==
    LET starts == {i \in DOMAIN text : text[i] = LB /\ \E j \in DOMAIN text : j > i /\ text[j] = RB}
    IN  IF starts = {}
        THEN [found |-> FALSE, group |-> <<>>]
        ELSE LET i == CHOOSE a \in starts : \A b \in starts : a <= b
                 j == CHOOSE a \in DOMAIN text :
                          /\ a > i /\ text[a] = RB
                          /\ \A b \in DOMAIN text : (b > i /\ text[b] = RB) => b <= a
             IN  [found |-> TRUE, group |-> SubSeq(text, i, j)]

\* json.loads: a recursive-descent parse; each parser returns whether it
\* succeeded, the value and the tokens left
Fail == [ok |-> FALSE, v |-> VNull, rest |-> <<>>]
Done(v, rest) == [ok |-> TRUE, v |-> v, rest |-> rest]

RECURSIVE parse_value(_)
RECURSIVE parse_members(_, _)
RECURSIVE parse_elements(_, _)

\* members of an object after "{" or ","; a repeated key keeps the last value
parse_members(ts, o) ==
    IF ts = <<>> THEN Fail
    ELSE LET pair ==
                 IF Head(ts).k = "member" THEN [ok |-> TRUE, key |-> Head(ts).key, v |-> Head(ts).val, rest |-> Tail(ts)]
                 ELSE IF Head(ts).k = "key"
                      THEN LET r == parse_value(Tail(ts))
                           IN  [ok |-> r.ok, key |-> Head(ts).key, v |-> r.v, rest |-> r.rest]
                      ELSE [ok |-> FALSE, key |-> "", v |-> VNull, rest |-> <<>>]
         IN  IF ~pair.ok \/ pair.rest = <<>> THEN Fail
             ELSE LET o2 == Put(o, pair.key, pair.v)
                  IN  IF Head(pair.rest) = RB THEN Done(VObj(o2), Tail(pair.rest))
                      ELSE IF Head(pair.rest) = Comma THEN parse_members(Tail(pair.rest), o2)
                      ELSE Fail

\* elements of a list after "[" or ","
parse_elements(ts, items) ==
    LET r == parse_value(ts)
    IN  IF ~r.ok \/ r.rest = <<>> THEN Fail
        ELSE IF Head(r.rest) = RK THEN Done(VList(Append(items, r.v)), Tail(r.rest))
        ELSE IF Head(r.rest) = Comma THEN parse_elements(Tail(r.rest), Append(items, r.v))
        ELSE Fail

parse_value(ts) ==
    IF ts = <<>> THEN Fail
    ELSE CASE Head(ts).k = "val" -> Done(Head(ts).val, Tail(ts))
           [] Head(ts) = LB ->
                IF Len(ts) >= 2 /\ ts[2] = RB THEN Done(EmptyObj, Tail(Tail(ts)))
                ELSE parse_members(Tail(ts), <<>>)
           [] Head(ts) = LK ->
                IF Len(ts) >= 2 /\ ts[2] = RK THEN Done(VList(<<>>), Tail(Tail(ts)))
                ELSE parse_elements(Tail(ts), <<>>)
           [] OTHER -> Fail

\* json.loads(s): white space between tokens is skipped, the whole string
\* must be one value; ok = FALSE stands for JSONDecodeError
json_loads(s) ==
    LET r == parse_value(SelectSeq(s, LAMBDA tk : tk # WS))
    IN  IF r.ok /\ r.rest = <<>> THEN [ok |-> TRUE, v |-> r.v] ELSE [ok |-> FALSE, v |-> VNull]

----------------------------------------------------------------------------
(* The collaborator: one call of model.generate_content(prompt) either     *)
(* raises, or returns a response whose .text raises (a blocked or empty    *)
(* candidate), or returns a response with a text.  The text is not a       *)
(* function of the prompt.                                                 *)

Raises == [kind |-> "raise", text |-> <<>>]
NoText == [kind |-> "notext", text |-> <<>>]
Text(text) == [kind |-> "text", text |-> text]

\* what a call sends; goals defaults to "General mastery" in the prompt only
PathPrompt(topic, level, timeframe, goals) ==
    [for |-> "path", topic |-> topic, level |-> level, timeframe |-> timeframe,
     goals |-> IF Truthy(goals) THEN goals ELSE Lit("General mastery"), num_questions |-> 0]
QuizPrompt(topic, level, num_questions) ==
    [for |-> "quiz", topic |-> topic, level |-> level, timeframe |-> VNull,
     goals |-> VNull, num_questions |-> num_questions]

Call(prompt, outcome) == [prompt |-> prompt, outcome |-> outcome]

\* the outcomes to consider for a call: without a model no call is made, and
\* one placeholder stands for the outcome that is never looked at
OutcomesFor(mdl, outcomes) == IF mdl THEN outcomes ELSE {Raises}

\* generate_learning_path whose except branch passes goals where level belongs
Generator_generate_learning_path_goals(mdl, topic, level, timeframe, goals, outcome) ==
    IF ~mdl
    THEN [value |-> _create_fallback_path(topic, level, timeframe), calls |-> <<>>]
    ELSE LET made == <<Call(PathPrompt(topic, level, timeframe, goals), outcome)>>
             json_match == re_search(strip(outcome.text))
             parsed == json_loads(json_match.group)
         IN  IF outcome.kind # "text"
             THEN [value |-> _create_fallback_path(topic, goals, timeframe), calls |-> made]
             ELSE IF json_match.found
                  THEN IF parsed.ok
                       THEN [value |-> parsed.v, calls |-> made]
                       ELSE [value |-> _create_fallback_path(topic, goals, timeframe), calls |-> made]
                  ELSE [value |-> _create_fallback_path(topic, level, timeframe), calls |-> made]

\* LearningPathGenerator.generate_learning_path: the value returned and the
\* collaborator calls made
Generator_generate_learning_path(mdl, topic, level, timeframe, goals, outcome) ==
    IF ~mdl
    THEN [value |-> _create_fallback_path(topic, level, timeframe), calls |-> <<>>]
    ELSE LET made == <<Call(PathPrompt(topic, level, timeframe, goals), outcome)>>
             json_match == re_search(strip(outcome.text))
             parsed == json_loads(json_match.group)
         IN  IF outcome.kind # "text"
             THEN [value |-> _create_fallback_path(topic, level, timeframe), calls |-> made]
             ELSE IF json_match.found
                  THEN IF parsed.ok
                       THEN [value |-> parsed.v, calls |-> made]
                       ELSE [value |-> _create_fallback_path(topic, level, timeframe), calls |-> made]
                  ELSE [value |-> _create_fallback_path(topic, level, timeframe), calls |-> made]

\* generate_quiz that falls back when the parsed object has no "questions"
Generator_generate_quiz_fallback_on_missing(mdl, topic, level, num_questions, outcome) ==
    IF ~mdl
    THEN [value |-> _create_fallback_quiz(topic, level), calls |-> <<>>]
    ELSE LET made == <<Call(QuizPrompt(topic, level, num_questions), outcome)>>
             json_match == re_search(strip(outcome.text))
             quiz_data == json_loads(json_match.group)
         IN  IF outcome.kind # "text"
             THEN [value |-> _create_fallback_quiz(topic, level), calls |-> made]
             ELSE IF json_match.found
                  THEN IF quiz_data.ok
                       THEN [value |-> Get(quiz_data.v, "questions", _create_fallback_quiz(topic, level)), calls |-> made]
                       ELSE [value |-> _create_fallback_quiz(topic, level), calls |-> made]
                  ELSE [value |-> _create_fallback_quiz(topic, level), calls |-> made]

\* LearningPathGenerator.generate_quiz
Generator_generate_quiz(mdl, topic, level, num_questions, outcome) ==
    IF ~mdl
    THEN [value |-> _create_fallback_quiz(topic, level), calls |-> <<>>]
    ELSE LET made == <<Call(QuizPrompt(topic, level, num_questions), outcome)>>
             json_match == re_search(strip(outcome.text))
             quiz_data == json_loads(json_match.group)
         IN  IF outcome.kind # "text"
             THEN [value |-> _create_fallback_quiz(topic, level), calls |-> made]
             ELSE IF json_match.found
                  THEN IF quiz_data.ok
                       THEN [value |-> Get(quiz_data.v, "questions", VList(<<>>)), calls |-> made]
                       ELSE [value |-> _create_fallback_quiz(topic, level), calls |-> made]
                  ELSE [value |-> _create_fallback_quiz(topic, level), calls |-> made]

----------------------------------------------------------------------------
(* Statistics of a learning path (the endpoint's "Calculate stats" block)  *)

IsDigit(c) == c \in {"0", "1", "2", "3", "4", "5", "6", "7", "8", "9"}
DigitVal(c) ==
    CASE c = "0" -> 0 [] c = "1" -> 1 [] c = "2" -> 2 [] c = "3" -> 3 [] c = "4" -> 4
      [] c = "5" -> 5 [] c = "6" -> 6 [] c = "7" -> 7 [] c = "8" -> 8 [] c = "9" -> 9

\* re.findall(r'\d+', s): scan left to right; cur is the run of digits being
\* read, acc the runs already closed
RECURSIVE findall_digits(_, _, _)
findall_digits(s, cur, acc) ==
    IF s = <<>> THEN (IF cur = <<>> THEN acc ELSE Append(acc, cur))
    ELSE IF IsDigit(Head(s)) THEN findall_digits(Tail(s), Append(cur, Head(s)), acc)
    ELSE findall_digits(Tail(s), <<>>, IF cur = <<>> THEN acc ELSE Append(acc, cur))

\* int(x) of a run of decimal digits
RECURSIVE int(_)
int(x) == IF x = <<>> THEN 0 ELSE 10 * int(SubSeq(x, 1, Len(x) - 1)) + DigitVal(x[Len(x)])

RECURSIVE sum(_)
sum(xs) == IF xs = <<>> THEN 0 ELSE Head(xs) + sum(Tail(xs))

\* derive_stats that takes the first number found instead of the mean
derive_stats_first(learning_path) ==
    LET steps == Get(learning_path, "steps", VList(<<>>))
        estimated_time == Get(learning_path, "total_estimated_time", DefaultTotalTime)
        time_numbers == findall_digits(estimated_time.s, <<>>, <<>>)
        avg_time == IF time_numbers # <<>> THEN int(time_numbers[1]) ELSE 50
    IN  IF ~HasLen(steps) \/ estimated_time.t # "str"
        THEN [raised |-> TRUE, total_steps |-> 0, estimated_time |-> 0]
        ELSE [raised |-> FALSE, total_steps |-> PyLen(steps), estimated_time |-> avg_time]

\* raised = TRUE stands for the TypeError of len() or re.findall() on a value
\* of the wrong type
derive_stats(learning_path) ==
    LET steps == Get(learning_path, "steps", VList(<<>>))
        estimated_time == Get(learning_path, "total_estimated_time", DefaultTotalTime)
        time_numbers == findall_digits(estimated_time.s, <<>>, <<>>)
        avg_time == IF time_numbers # <<>>
                    THEN sum([i \in DOMAIN time_numbers |-> int(time_numbers[i])]) \div Len(time_numbers)
                    ELSE 50
    IN  IF ~HasLen(steps) \/ estimated_time.t # "str"
        THEN [raised |-> TRUE, total_steps |-> 0, estimated_time |-> 0]
        ELSE [raised |-> FALSE, total_steps |-> PyLen(steps), estimated_time |-> avg_time]

----------------------------------------------------------------------------
(* Requests and responses.  body_ok = FALSE is a request whose body        *)
(* request.get_json() rejects (absent or malformed JSON): get_json raises  *)
(* an HTTPException, which is an Exception.  A body of JSON null makes     *)
(* get_json return None.                                                   *)

Request(op, body_ok, body) == [op |-> op, body_ok |-> body_ok, body |-> body]
NoRequest == Request("none", TRUE, VNull)

Resp(status, body) == [status |-> status, body |-> body]
NoResponse == Resp(0, VNull)

NoLocals == [score |-> 0, total |-> 0]

Obj1(k1, v1) == VObj(Put(<<>>, k1, v1))
Obj2(k1, v1, k2, v2) == VObj(Put(Put(<<>>, k1, v1), k2, v2))

\* `key in data`
In(key, data) ==
    CASE data.t = "obj" -> key \in DOMAIN data.o
      [] data.t = "list" -> \E i \in DOMAIN data.items : data.items[i] = Lit(key)
      [] OTHER -> FALSE

\* the endpoint POST /api/generate-learning-path
generate_learning_path(mdl, req, path_outcome, quiz_outcome) ==
    LET data == req.body
        failed(made, details) ==
            [response |-> Resp(500, Obj2("error", Lit("Failed to generate learning path"),
                                         "details", Lit(details))),
             calls |-> made]
    IN  IF ~req.body_ok THEN failed(<<>>, "HTTPException")
        ELSE IF ~Truthy(data) \/ ~In("topic", data)
        THEN [response |-> Resp(400, Obj1("error", Lit("Topic is required"))), calls |-> <<>>]
        ELSE IF data.t # "obj" THEN failed(<<>>, "TypeError")
        ELSE LET topic == data.o["topic"]
                 level == Get(data, "level", Lit("beginner"))
                 timeframe == Get(data, "timeframe", Lit("1 month"))
                 goals == Get(data, "goals", VStr(<<>>))
                 learning_path == Generator_generate_learning_path(mdl, topic, level, timeframe, goals, path_outcome)
                 quiz_questions == Generator_generate_quiz(mdl, topic, level, VNum(5), quiz_outcome)
                 made == learning_path.calls \o quiz_questions.calls
                 stats == derive_stats(learning_path.value)
             IN  IF stats.raised THEN failed(made, "TypeError")
                 ELSE [response |->
                          Resp(200, VObj([k \in {"success", "learning_path", "quiz", "stats"} |->
                              CASE k = "success" -> VBool(TRUE)
                                [] k = "learning_path" -> learning_path.value
                                [] k = "quiz" -> quiz_questions.value
                                [] k = "stats" ->
                                     VObj([j \in {"total_steps", "estimated_time", "topic", "level"} |->
                                         CASE j = "total_steps" -> VNum(stats.total_steps)
                                           [] j = "estimated_time" -> VNum(stats.estimated_time)
                                           [] j = "topic" -> topic
                                           [] j = "level" -> level])])),
                       calls |-> made]

\* the endpoint GET /api/health
health_check(mdl) ==
    Resp(200, VObj([k \in {"status", "message", "has_api_key"} |->
        CASE k = "status" -> Lit("healthy")
          [] k = "message" -> Lit("Learning Assistant API is running")
          [] k = "has_api_key" -> VBool(mdl)]))

\* the before_request hook, which answers every OPTIONS request itself
handle_preflight == Resp(200, EmptyObj)

\* enumerate(v): the elements of a list, the characters of a string
Iterable(v) == v.t \in {"list", "str"}
Elems(v) ==
    CASE v.t = "list" -> v.items
      [] v.t = "str" -> [i \in DOMAIN v.s |-> VStr(<<v.s[i]>>)]
      [] OTHER -> <<>>

\* count_score without the test i < len(correct_answers): an answer beyond
\* the end of correct_answers is an IndexError
count_score_unguarded(user_answers, correct_answers) ==
    LET ans == Elems(user_answers)
    IN  IF ~Iterable(user_answers) \/ (ans # <<>> /\ ~Iterable(correct_answers))
           \/ Len(ans) > PyLen(correct_answers)
        THEN [raised |-> TRUE, score |-> 0]
        ELSE [raised |-> FALSE,
              score |-> Cardinality({i \in DOMAIN ans : ans[i] = Elems(correct_answers)[i]})]

\* score = sum(1 for i, ans in enumerate(user_answers)
\*                if i < len(correct_answers) and ans == correct_answers[i]);
\* raised = TRUE stands for the TypeError of enumerate() or len() on a value
\* that is not a sequence (len() is reached only if there is an answer)
count_score(user_answers, correct_answers) ==
    LET ans == Elems(user_answers)
    IN  IF ~Iterable(user_answers) \/ (ans # <<>> /\ ~Iterable(correct_answers))
        THEN [raised |-> TRUE, score |-> 0]
        ELSE [raised |-> FALSE,
              score |-> Cardinality({i \in DOMAIN ans :
                            i <= PyLen(correct_answers) /\ ans[i] = Elems(correct_answers)[i]})]

\* select_feedback with > in place of >=
select_feedback_strict(score, total) ==
    IF score = total
    THEN "Excellent work! You have a strong understanding of the concepts."
    ELSE IF 10 * score > 8 * total
    THEN "Great job! You're doing very well with most concepts."
    ELSE IF 10 * score > 6 * total
    THEN "Good progress! Review the areas where you missed questions."
    ELSE "Keep practicing! Focus on the fundamental concepts."

\* the if/elif chain that picks the feedback sentence.  The comparisons
\* with total * 0.8 and total * 0.6 are made in binary floating point; for
\* every total below 40 they agree with the exact comparisons
\* 10 * score >= 8 * total and 10 * score >= 6 * total used here.
select_feedback(score, total) ==
    IF score = total
    THEN "Excellent work! You have a strong understanding of the concepts."
    ELSE IF 10 * score >= 8 * total
    THEN "Great job! You're doing very well with most concepts."
    ELSE IF 10 * score >= 6 * total
    THEN "Good progress! Review the areas where you missed questions."
    ELSE "Keep practicing! Focus on the fundamental concepts."

\* the endpoint POST /api/quiz-feedback; data.get on a body that is not an
\* object is an AttributeError
quiz_feedback(req) ==
    LET data == req.body
        failed == [response |-> Resp(500, Obj1("error", Lit("Failed to generate feedback"))),
                   locals |-> NoLocals]
    IN  IF ~req.body_ok \/ data.t # "obj" THEN failed
        ELSE LET topic == Get(data, "topic", Lit("programming"))
                 user_answers == Get(data, "answers", VList(<<>>))
                 correct_answers == Get(data, "correct_answers", VList(<<>>))
                 counted == count_score(user_answers, correct_answers)
                 score == counted.score
                 total == PyLen(user_answers)
                 feedback == select_feedback(score, total)
                 feedback_data ==
                     VObj([k \in {"overall_feedback", "strengths", "improvement_areas", "next_steps", "resources"} |->
                         CASE k = "overall_feedback" -> Lit(feedback)
                           [] k = "strengths" ->
                                IF score > 0 THEN StrList(<<"Completed the quiz">>)
                                ELSE StrList(<<"Attempted all questions">>)
                           [] k = "improvement_areas" ->
                                IF score < total THEN StrList(<<"Review missed topics">>)
                                ELSE StrList(<<"Continue learning advanced topics">>)
                           [] k = "next_steps" ->
                                VList(<<Fmt("Practice more ", topic, " exercises"),
                                        Lit("Build projects to reinforce learning")>>)
                           [] k = "resources" ->
                                StrList(<<"Official documentation", "Interactive tutorials", "Practice platforms">>)])
             IN  IF counted.raised THEN failed
                 ELSE [response |-> Resp(200, Obj2("success", VBool(TRUE), "feedback", feedback_data)),
                       locals |-> [score |-> score, total |-> total]]

----------------------------------------------------------------------------
(* Bounds and the inputs drawn within them *)

MaxTextLen == 4
MaxTimeLen == 3
MaxSteps == 2
MaxAnswers == 5

SeqUpTo(S, n) == UNION {[1..k -> S] : k \in 0..n}

Topics == {VStr(<<>>), Lit("py")}
Levels == {Lit("beginner"), Lit("advanced")}
Timeframes == {Lit("1 month"), Lit("2 weeks")}
Goals == {VStr(<<>>), Lit("web")}

\* bodies of POST /api/generate-learning-path: JSON null, a list, and every
\* object over the four request fields, topic empty or not
GenerateBodies ==
    {VNull, VList(<<Lit("topic")>>)} \cup
    {VObj([k \in K |->
              CASE k = "topic" -> topic
                [] k = "level" -> Lit("advanced")
                [] k = "timeframe" -> Lit("2 weeks")
                [] k = "goals" -> Lit("web")]) :
        K \in SUBSET {"topic", "level", "timeframe", "goals"}, topic \in Topics}

\* a response that follows the prompt: an object with every field of the
\* requested structure, between prose
ConformantPathText ==
    <<Word, WS, LB,
      Member("title", Lit("Python path")), Comma,
      Member("description", Lit("From zero to scripts")), Comma,
      Key("steps"), LK, LB,
          Member("title", Lit("Basics")), Comma,
          Member("description", Lit("Syntax and types")), Comma,
          Member("duration", Lit("3-4 days")), Comma,
          Member("resources", StrList(<<"docs">>)), Comma,
          Member("key_concepts", StrList(<<"variables">>)), Comma,
          Member("practical_tasks", StrList(<<"hello world">>)),
      RB, RK, Comma,
      Member("total_estimated_time", VStr(<<"2", "0", " ", "h">>)), Comma,
      Member("difficulty_progression", Lit("beginner to intermediate")), Comma,
      Member("success_metrics", StrList(<<"a finished script">>)),
      RB, WS>>

ConformantQuizText ==
    <<LB, Key("questions"), LK, LB,
          Member("question", Lit("What prints text?")), Comma,
          Member("options", StrList(<<"print", "input", "len", "int">>)), Comma,
          Member("correct_answer", VNum(0)), Comma,
          Member("explanation", Lit("print writes to stdout")),
      RB, RK, RB>>

TimeChars == {"4", "5", "-", "h"}
TimeStrings == {VStr(s) : s \in SeqUpTo(TimeChars, MaxTimeLen)}
StepLists == {VList([i \in 1..k |-> Lit("step")]) : k \in 0..MaxSteps}

\* what the collaborator answers to the endpoint's learning-path prompt
PathOutcomes ==
    {Raises, NoText} \cup
    {Text(t) : t \in
        {<<Word>>, <<LB, Word, RB>>, <<RB, Word, LB>>, <<LB, RB>>, ConformantPathText,
         <<LB, Member("steps", VNum(5)), RB>>,
         <<LB, Member("steps", VNull), RB>>,
         <<LB, Member("total_estimated_time", VNum(50)), RB>>,
         <<LB, Member("total_estimated_time", VNull), RB>>} \cup
        {<<LB, Member("steps", l), Comma, Member("total_estimated_time", s), RB>> :
            l \in StepLists, s \in TimeStrings}}

\* what the collaborator answers to the endpoint's quiz prompt
QuizOutcomes ==
    {Raises, NoText} \cup
    {Text(t) : t \in
        {<<Word>>, <<LB, Comma, RB>>, <<LB, RB>>, ConformantQuizText,
         <<LB, Member("questions", VNum(5)), RB>>,
         <<LB, Member("questions", VNull), RB>>,
         <<LB, Member("title", Lit("T")), Comma, Member("title", Lit("U")), RB>>}}

UserAnswers == {VList(a) : a \in SeqUpTo({VNum(0), VNum(1), VNull}, MaxAnswers)}
CorrectAnswers == {VList(c) : c \in SeqUpTo({VNum(0), VNum(1)}, MaxAnswers)}
NotASequence == {VNum(5), VNull}

\* bodies of POST /api/quiz-feedback
FeedbackBodies ==
    {VNull, EmptyObj, VList(<<>>)} \cup
    {Obj2("answers", a, "correct_answers", c) :
        a \in UserAnswers \cup NotASequence \cup {VStr(<<"a", "b">>)},
        c \in CorrectAnswers \cup NotASequence} \cup
    {VObj(Put(Put(Put(<<>>, "topic", Lit("python")), "answers", a), "correct_answers", c)) :
        a \in {VList(<<VNum(1), VNum(2), VNum(0)>>)}, c \in {VList(<<VNum(1), VNum(2), VNum(1)>>)}} \cup
    {Obj1("answers", a) : a \in {VList(<<>>), VList(<<VNum(0)>>)}} \cup
    {Obj1("correct_answers", c) : c \in {VList(<<VNum(0)>>)}}

----------------------------------------------------------------------------
(* The server.  Flask serves one request at a time here: a handler runs    *)
(* from the request to its response in one step, and the request context   *)
(* is dropped when the response has been sent.                             *)

Init ==
    /\ model \in BOOLEAN
    /\ request = NoRequest
    /\ calls = <<>>
    /\ locals = NoLocals
    /\ response = NoResponse

Idle == request.op = "none"

PostGenerateLearningPath ==
    /\ Idle
    /\ \E body_ok \in BOOLEAN, body \in GenerateBodies, path_outcome \in OutcomesFor(model, PathOutcomes),
          quiz_outcome \in OutcomesFor(model, QuizOutcomes) :
          LET req == Request("generate_learning_path", body_ok, IF body_ok THEN body ELSE VNull)
              r == generate_learning_path(model, req, path_outcome, quiz_outcome)
          IN  /\ request' = req
              /\ calls' = r.calls
              /\ response' = r.response
    /\ UNCHANGED <<model, locals>>

PostQuizFeedback ==
    /\ Idle
    /\ \E body_ok \in BOOLEAN, body \in FeedbackBodies :
          LET req == Request("quiz_feedback", body_ok, IF body_ok THEN body ELSE VNull)
              r == quiz_feedback(req)
          IN  /\ request' = req
              /\ locals' = r.locals
              /\ response' = r.response
    /\ UNCHANGED <<model, calls>>

GetHealth ==
    /\ Idle
    /\ request' = Request("health_check", TRUE, VNull)
    /\ response' = health_check(model)
    /\ UNCHANGED <<model, calls, locals>>

Options ==
    /\ Idle
    /\ request' = Request("handle_preflight", TRUE, VNull)
    /\ response' = handle_preflight
    /\ UNCHANGED <<model, calls, locals>>

\* the response is sent and the request context torn down
Respond ==
    /\ ~Idle
    /\ request' = NoRequest
    /\ calls' = <<>>
    /\ locals' = NoLocals
    /\ response' = NoResponse
    /\ UNCHANGED model

Next ==
    \/ PostGenerateLearningPath
    \/ PostQuizFeedback
    \/ GetHealth
    \/ Options
    \/ Respond

Spec == Init /\ [][Next]_vars

----------------------------------------------------------------------------
(* The generator's two methods called on their own, with every response    *)
(* text of at most MaxTextLen tokens.  The values in these texts hold no   *)
(* braces, so the braces of a text are exactly its "{" and "}" tokens.     *)

PathAlphabet ==
    {LB, RB, Comma, Word, WS,
     Member("title", Lit("T")), Member("steps", VList(<<>>))}
QuizAlphabet ==
    {LB, RB, Comma, Word, WS,
     Member("questions", StrList(<<"q">>)), Member("title", Lit("T"))}

PathTexts == SeqUpTo(PathAlphabet, MaxTextLen) \cup {ConformantPathText}
QuizTexts == SeqUpTo(QuizAlphabet, MaxTextLen) \cup {ConformantQuizText}

Args(topic, level, timeframe, goals) ==
    VObj([k \in {"topic", "level", "timeframe", "goals"} |->
        CASE k = "topic" -> topic
          [] k = "level" -> level
          [] k = "timeframe" -> timeframe
          [] k = "goals" -> goals])

CallGenerateLearningPath ==
    /\ Idle
    /\ \E topic \in Topics, level \in Levels, timeframe \in Timeframes, goals \in Goals,
          outcome \in OutcomesFor(model, {Raises, NoText} \cup {Text(t) : t \in PathTexts}) :
          LET r == Generator_generate_learning_path(model, topic, level, timeframe, goals, outcome)
          IN  /\ request' = Request("Generator.generate_learning_path", TRUE, Args(topic, level, timeframe, goals))
              /\ calls' = r.calls
              /\ response' = Resp(0, r.value)
    /\ UNCHANGED <<model, locals>>

CallGenerateQuiz ==
    /\ Idle
    /\ \E topic \in Topics, level \in Levels,
          outcome \in OutcomesFor(model, {Raises, NoText} \cup {Text(t) : t \in QuizTexts}) :
          LET r == Generator_generate_quiz(model, topic, level, VNum(5), outcome)
          IN  /\ request' = Request("Generator.generate_quiz", TRUE, Args(topic, level, VNull, VNull))
              /\ calls' = r.calls
              /\ response' = Resp(0, r.value)
    /\ UNCHANGED <<model, locals>>

\* the method has returned and its caller drops the value
Return ==
    /\ ~Idle
    /\ request' = NoRequest
    /\ calls' = <<>>
    /\ response' = NoResponse
    /\ UNCHANGED <<model, locals>>

NextGen ==
    \/ CallGenerateLearningPath
    \/ CallGenerateQuiz
    \/ Return

SpecGen == Init /\ [][NextGen]_vars

----------------------------------------------------------------------------
(* Properties of POST /api/quiz-feedback *)

FeedbackServed == request.op = "quiz_feedback"
SentAnswers == Get(request.body, "answers", VList(<<>>))
SentCorrect == Get(request.body, "correct_answers", VList(<<>>))
Min(a, b) == IF a <= b THEN a ELSE b

Excellent == Lit("Excellent work! You have a strong understanding of the concepts.")
Great == Lit("Great job! You're doing very well with most concepts.")
Good == Lit("Good progress! Review the areas where you missed questions.")
NeedsPractice == Lit("Keep practicing! Focus on the fundamental concepts.")

\* C7: whatever the two answer sequences, empty ones included, the feedback
\* sentence is fixed by score and total = number of user answers: excellent
\* when score = total; else great when score >= 0.8 total; else good when
\* score >= 0.6 total; else needs practice.  improvement_areas is "Continue
\* learning advanced topics" exactly when score = total and "Review missed
\* topics" otherwise.
C7_TierByFirstApplicableRule ==
    (FeedbackServed /\ response.status = 200) =>
        LET total == PyLen(SentAnswers)
            score == locals.score
            fb == response.body.o["feedback"].o
        IN  /\ locals.total = total
            /\ (score = total) => fb["overall_feedback"] = Excellent
            /\ (score # total /\ 5 * score >= 4 * total) => fb["overall_feedback"] = Great
            /\ (5 * score < 4 * total /\ 5 * score >= 3 * total) => fb["overall_feedback"] = Good
            /\ (5 * score < 3 * total) => fb["overall_feedback"] = NeedsPractice
            /\ (score = total) <=> fb["improvement_areas"] = StrList(<<"Continue learning advanced topics">>)
            /\ (score # total) <=> fb["improvement_areas"] = StrList(<<"Review missed topics">>)

\* four right answers out of five sit exactly on the 0.8 threshold
C7_Witness ==
    /\ FeedbackServed /\ response.status = 200
    /\ locals.total = 5 /\ locals.score = 4
    /\ response.body.o["feedback"].o["overall_feedback"] = Great

\* C8: for two sequences of answers the score is the number of positions,
\* valid in both, at which they agree; different lengths and null user
\* answers do not make the request fail, and 0 <= score <= the shorter length.
C8_ScoreCountsAgreeingPositions ==
    (FeedbackServed /\ request.body_ok /\ request.body.t = "obj"
        /\ SentAnswers.t = "list" /\ SentCorrect.t = "list") =>
        LET shorter == Min(Len(SentAnswers.items), Len(SentCorrect.items))
        IN  /\ response.status = 200
            /\ locals.score = Cardinality({i \in 1..shorter : SentAnswers.items[i] = SentCorrect.items[i]})
            /\ 0 <= locals.score /\ locals.score <= shorter

\* three user answers, one of them null, against two correct answers
C8_Witness ==
    /\ FeedbackServed /\ response.status = 200
    /\ SentAnswers = VList(<<VNum(1), VNull, VNum(0)>>)
    /\ SentCorrect = VList(<<VNum(1), VNum(0)>>)
    /\ locals.score = 1

\* C9: a quiz-feedback request with no usable body, or whose answers are
\* not a sequence, is answered with a client error (status 4xx).
C9_MalformedFeedbackIsClientError ==
    (FeedbackServed /\ (~request.body_ok \/ (request.body.t = "obj" /\ SentAnswers.t \in {"num", "null"}))) =>
        (response.status >= 400 /\ response.status <= 499)

----------------------------------------------------------------------------
(* Properties of POST /api/generate-learning-path *)

GenerateServed == request.op = "generate_learning_path"
TopicPresent == request.body_ok /\ Has(request.body, "topic")

\* C1: a request with a topic ends in a success result that carries
\* learning_path, quiz and stats, whatever the collaborator does.
C1_TopicPresentAlwaysSucceeds ==
    (GenerateServed /\ TopicPresent) =>
        /\ response.status = 200
        /\ {"learning_path", "quiz", "stats"} \subseteq DOMAIN response.body.o

\* C3: a request whose body is null or an object, with no topic or with the
\* empty string as topic, is rejected as a client error and the collaborator
\* is not called for it.
C3_MissingOrEmptyTopicRejected ==
    (GenerateServed /\ request.body_ok /\ request.body.t \in {"null", "obj"}
        /\ (~Has(request.body, "topic") \/ request.body.o["topic"] = VStr(<<>>))) =>
        (response.status = 400 /\ calls = <<>>)

\* the maximal runs of decimal digits of s, as pairs <<first, last>>
DigitRuns(s) ==
    {r \in (1..Len(s)) \X (1..Len(s)) :
        /\ r[1] <= r[2]
        /\ \A k \in r[1]..r[2] : IsDigit(s[k])
        /\ (r[1] = 1 \/ ~IsDigit(s[r[1] - 1]))
        /\ (r[2] = Len(s) \/ ~IsDigit(s[r[2] + 1]))}

RECURSIVE Pow10(_)
Pow10(e) == IF e = 0 THEN 1 ELSE 10 * Pow10(e - 1)

RECURSIVE PlaceSum(_, _, _)
PlaceSum(s, r, k) ==
    IF k > r[2] THEN 0 ELSE DigitVal(s[k]) * Pow10(r[2] - k) + PlaceSum(s, r, k + 1)

RECURSIVE RunsTotal(_, _)
RunsTotal(s, R) ==
    IF R = {} THEN 0
    ELSE LET r == CHOOSE x \in R : TRUE IN PlaceSum(s, r, r[1]) + RunsTotal(s, R \ {r})

\* C10: in a success result total_steps is the length of the path's step
\* sequence, and estimated_time is the floor of the mean of the maximal
\* digit runs of total_estimated_time, or 50 when it has none.
C10_StatsOfPath ==
    (GenerateServed /\ response.status = 200) =>
        LET path == response.body.o["learning_path"]
            stats == response.body.o["stats"].o
            time == Get(path, "total_estimated_time", DefaultTotalTime).s
            runs == DigitRuns(time)
            n == Cardinality(runs)
            est == stats["estimated_time"].n
        IN  /\ stats["total_steps"].t = "num" /\ stats["estimated_time"].t = "num"
            /\ Has(path, "steps") /\ path.o["steps"].t = "list"
                  => stats["total_steps"].n = Len(path.o["steps"].items)
            /\ ~Has(path, "steps") => stats["total_steps"].n = 0
            /\ n = 0 => est = 50
            /\ n > 0 => (est * n <= RunsTotal(time, runs) /\ RunsTotal(time, runs) < (est + 1) * n)

\* "5-4" has the mean 4.5 and two steps were returned
C10_Witness ==
    /\ GenerateServed /\ response.status = 200
    /\ Get(response.body.o["learning_path"], "total_estimated_time", VNull) = VStr(<<"5", "-", "4">>)
    /\ response.body.o["stats"].o["estimated_time"] = VNum(4)
    /\ response.body.o["stats"].o["total_steps"] = VNum(2)

----------------------------------------------------------------------------
(* Properties of the generator's methods *)

PathReturned == request.op = "Generator.generate_learning_path"
QuizReturned == request.op = "Generator.generate_quiz"
Arg(name) == request.body.o[name]
Returned == response.body

\* the collaborator was called and gave a text
GaveText == calls # <<>> /\ calls[1].outcome.kind = "text"
GivenText == calls[1].outcome.text

\* the schemas of the data model
IsStr(v) == v.t = "str"
IsStrList(v) == v.t = "list" /\ \A i \in DOMAIN v.items : IsStr(v.items[i])

ConformsStep(v) ==
    /\ v.t = "obj"
    /\ {"title", "description", "duration", "resources", "key_concepts", "practical_tasks"} \subseteq DOMAIN v.o
    /\ IsStr(v.o["title"]) /\ IsStr(v.o["description"]) /\ IsStr(v.o["duration"])
    /\ IsStrList(v.o["resources"]) /\ IsStrList(v.o["key_concepts"]) /\ IsStrList(v.o["practical_tasks"])

ConformsLearningPath(v) ==
    /\ v.t = "obj"
    /\ {"title", "description", "steps", "total_estimated_time", "difficulty_progression", "success_metrics"}
           \subseteq DOMAIN v.o
    /\ IsStr(v.o["title"]) /\ IsStr(v.o["description"])
    /\ v.o["steps"].t = "list" /\ Len(v.o["steps"].items) >= 1
    /\ \A i \in DOMAIN v.o["steps"].items : ConformsStep(v.o["steps"].items[i])
    /\ IsStr(v.o["total_estimated_time"]) /\ IsStr(v.o["difficulty_progression"])
    /\ IsStrList(v.o["success_metrics"])

ConformsQuestion(v) ==
    /\ v.t = "obj"
    /\ {"question", "options", "correct_answer", "explanation"} \subseteq DOMAIN v.o
    /\ IsStr(v.o["question"]) /\ IsStr(v.o["explanation"])
    /\ IsStrList(v.o["options"]) /\ Len(v.o["options"].items) = 4
    /\ v.o["correct_answer"].t = "num"
    /\ v.o["correct_answer"].n >= 0 /\ v.o["correct_answer"].n < Len(v.o["options"].items)

ConformsQuiz(v) == v.t = "list" /\ \A i \in DOMAIN v.items : ConformsQuestion(v.items[i])

\* the text from its first "{" to its last "}", if the one precedes the other
Opens(text) == {i \in DOMAIN text : text[i] = LB}
Closes(text) == {i \in DOMAIN text : text[i] = RB}
FirstOf(S) == CHOOSE a \in S : \A b \in S : a <= b
LastOf(S) == CHOOSE a \in S : \A b \in S : b <= a
HasBraced(text) == Opens(text) # {} /\ Closes(text) # {} /\ FirstOf(Opens(text)) < LastOf(Closes(text))
Braced(text) == SubSeq(text, FirstOf(Opens(text)), LastOf(Closes(text)))

\* the collaborator gave a text whose braced part parses
GaveParseable == GaveText /\ HasBraced(GivenText) /\ json_loads(Braced(GivenText)).ok
ParsedObject == json_loads(Braced(GivenText)).v

\* C2 as stated: every result of either method conforms to its schema.
C2_EveryResultConforms ==
    /\ PathReturned => ConformsLearningPath(Returned)
    /\ QuizReturned => ConformsQuiz(Returned)

\* C2 as amended: a result that does not conform to its schema is the
\* parsed collaborator output, returned unchecked (for the quiz, its
\* "questions" entry or the empty sequence); every other result, that is
\* every fallback, conforms.
C2_NonConformingOnlyFromParse ==
    /\ (PathReturned /\ ~ConformsLearningPath(Returned)) => (GaveParseable /\ Returned = ParsedObject)
    /\ (QuizReturned /\ ~ConformsQuiz(Returned)) =>
           (GaveParseable /\ Returned = Get(ParsedObject, "questions", VList(<<>>)))
    /\ (PathReturned /\ ~GaveParseable) => ConformsLearningPath(Returned)
    /\ (QuizReturned /\ ~GaveParseable) => ConformsQuiz(Returned)

\* an unparseable text answered by the conforming four-step fallback
C2_Witness ==
    /\ PathReturned /\ GaveText /\ GivenText = <<LB, Word, RB>>
    /\ ConformsLearningPath(Returned)
    /\ Len(Returned.o["steps"].items) = 4

\* C4: without a collaborator, or when its call fails, the result is the
\* fallback path of topic, level and timeframe, whatever goals is: the
\* fixed four steps and "40-60 hours", with topic and level in the texts.
C4_FallbackWhenUnavailable ==
    (PathReturned /\ ~GaveText) =>
        /\ Returned = _create_fallback_path(Arg("topic"), Arg("level"), Arg("timeframe"))
        /\ Returned.o["title"] = VStr(Arg("topic").s \o <<" Learning Path">>)
        /\ Returned.o["description"] =
               VStr(<<"A structured ">> \o Arg("level").s \o <<"-level approach to learning ">> \o Arg("topic").s)
        /\ Returned.o["difficulty_progression"] = VStr(Arg("level").s \o <<" to intermediate">>)
        /\ Returned.o["total_estimated_time"] = DefaultTotalTime
        /\ [i \in 1..4 |-> Returned.o["steps"].items[i].o["title"]] =
               <<Lit("Foundation & Setup"), Lit("Core Concepts"), Lit("Practical Application"), Lit("Advanced Topics")>>

\* a failed call made with goals given
C4_Witness ==
    /\ PathReturned /\ calls # <<>> /\ calls[1].outcome.kind = "raise"
    /\ Arg("goals") = Lit("web") /\ Arg("level") = Lit("advanced")
    /\ Returned.o["difficulty_progression"] = VStr(<<"advanced", " to intermediate">>)

\* C5: when the call gives a text, the part from its first "{" to its last
\* "}" is parsed; without such a part, or when it does not parse, the
\* result is the fallback path, and otherwise the parsed value, unchanged.
C5_ExtractParseOrFallback ==
    (PathReturned /\ GaveText) =>
        LET fallback == _create_fallback_path(Arg("topic"), Arg("level"), Arg("timeframe"))
        IN  /\ ~HasBraced(GivenText) => Returned = fallback
            /\ (HasBraced(GivenText) /\ ~json_loads(Braced(GivenText)).ok) => Returned = fallback
            /\ GaveParseable => Returned = ParsedObject
            /\ GivenText = <<Word, LB, Member("title", Lit("T")), RB>> => Returned = Obj1("title", Lit("T"))
            /\ GivenText = <<LB, RB, LB, RB>> => Returned = fallback
            /\ GivenText = <<LB, Member("title", Lit("T")), Member("steps", VList(<<>>)), RB>> => Returned = fallback
            /\ GivenText = <<RB, Word, LB>> => Returned = fallback

\* an object after prose comes back as parsed
C5_Witness ==
    /\ PathReturned /\ GaveText
    /\ GivenText = <<Word, LB, Member("title", Lit("T")), RB>>
    /\ Returned = Obj1("title", Lit("T"))

\* C6: a parseable object without "questions" gives the empty sequence, and
\* the fallback quiz is returned only when there is no collaborator, the
\* call fails, the text has no braced part, or that part does not parse.
C6_MissingQuestionsGivesEmpty ==
    QuizReturned =>
        /\ (GaveParseable /\ ~Has(ParsedObject, "questions")) => Returned = VList(<<>>)
        /\ Returned = _create_fallback_quiz(Arg("topic"), Arg("level")) => ~GaveParseable
        /\ ~GaveParseable => Returned = _create_fallback_quiz(Arg("topic"), Arg("level"))

\* an object that holds only a title
C6_Witness ==
    /\ QuizReturned /\ GaveText
    /\ GivenText = <<LB, Member("title", Lit("T")), RB>>
    /\ Returned = VList(<<>>)

====
